---- MODULE Spec2Model ----
(***************************************************************************)
(* Model of the NFT purchase backend (app/nft-purchase-app/backend).       *)
(*                                                                         *)
(*   verify_transaction : the transaction verifier, a function of the      *)
(*                        ledger's answer, the claim and the configured    *)
(*                        recipient (app.py 90-140)                        *)
(*   verify_payment     : the purchase handler, one process per request,   *)
(*                        sharing only the database (app.py 144-197)       *)
(*   get_nfts           : the read-only listing (app.py 201-211)           *)
(*                                                                         *)
(* Two specifications:                                                     *)
(*   VerifySpec : Init draws a claim and a ledger answer from the bounded  *)
(*                input sets, the one action applies verify_transaction.   *)
(*   Spec       : concurrent verify_payment requests against the store.    *)
(***************************************************************************)
EXTENDS Integers, Sequences, FiniteSets, TLC

(***************************************************************************)
(* Bounds of the model.                                                    *)
(***************************************************************************)
MaxInstr == 2       \* longest instruction list of a ledger answer
MaxKeys == 4        \* longest account-key table
MaxIdx == 4         \* largest account index an instruction carries
NegIdx == 1         \* account indices go down to -NegIdx

(***************************************************************************)
(* Program constants.                                                      *)
(***************************************************************************)
\* app.py 43: the recipient account, read from the server's environment.
ADMIN_WALLET_PUBLIC_KEY == "Treasury"
\* app.py 120: the programIdIndex the scan takes for the token program.
TOKEN_PROGRAM_INDEX == 2
\* app.py 120: the number of account indices a candidate needs.
MIN_ACCOUNTS == 3

\* The reasons verify_transaction returns (app.py 97-140); the two formatted
\* ones are kept up to their fixed prefix.
R_NOT_FOUND == "Transaction failed or not found on Solana"
R_NO_DATA == "Transaction data missing"
R_NO_MESSAGE == "Transaction message missing"
R_NO_INSTRUCTIONS == "Transaction instructions missing"
R_ACCOUNT_KEYS == " Error accessing account keys"
R_NO_TRANSFER == "Invalid transaction: No transfer to the recipient found."
R_EXCEPTION == " Error during verification"
R_NONE == "None"

(***************************************************************************)
(* Input sets.                                                             *)
(***************************************************************************)
Users == {"Alice", "Mallory"}
Mints == {"MintX"}
Signatures == {"sig1", "sig2"}

\* The account-key table of length n: payer, recipient, mint, then others.
KeyTable(n) ==
  [i \in 1..n |-> IF i = 1 THEN "Alice"
                  ELSE IF i = 2 THEN "Treasury"
                  ELSE IF i = 3 THEN "MintX"
                  ELSE "Mallory"]

KeyTables == {KeyTable(n) : n \in 0..MaxKeys}

Idx == (0 - NegIdx)..MaxIdx

\* Account index lists: <<0,1,2>> with at most one entry replaced by any
\* index, a list with a fourth entry, and lists too short for a candidate.
AccountLists ==
  {<<i, 1, 2>> : i \in Idx} \cup {<<0, i, 2>> : i \in Idx}
    \cup {<<0, 1, i>> : i \in Idx}
    \cup {<<>>, <<0, 1>>, <<0, 1, 2, MaxIdx>>}

\* An entry of the instruction list: a JSON object with programIdIndex and
\* accounts, or something that is not an object.  accountsIsList is FALSE
\* for an object whose accounts is null instead of a list.
NotADict ==
  [isDict |-> FALSE, programIdIndex |-> 0, accounts |-> <<>>,
   accountsIsList |-> TRUE]

NullAccounts ==
  [isDict |-> TRUE, programIdIndex |-> TOKEN_PROGRAM_INDEX,
   accounts |-> <<>>, accountsIsList |-> FALSE]

Instructions ==
  {NotADict, NullAccounts}
    \cup [isDict : {TRUE}, programIdIndex : {TOKEN_PROGRAM_INDEX},
          accounts : AccountLists, accountsIsList : {TRUE}]
    \cup [isDict : {TRUE}, programIdIndex : {TOKEN_PROGRAM_INDEX + 1},
          accounts : {<<0, 1, 2>>}, accountsIsList : {TRUE}]

RECURSIVE SeqsUpTo(_, _)
SeqsUpTo(S, n) ==
  IF n = 0 THEN {<<>>}
  ELSE LET shorter == SeqsUpTo(S, n - 1)
       IN shorter \cup {Append(s, x) : s \in {t \in shorter : Len(t) = n - 1},
                                       x \in S}

\* What solana_client.get_transaction hands back.  fetch: "raise" (the call
\* throws), "empty" (a falsy answer) or "ok"; each has* flag tells whether
\* that part of the JSON answer is present (and truthy); err is meta.err.
EmptyBody ==
  [hasTransaction |-> FALSE, hasMessage |-> FALSE, hasInstructions |-> FALSE,
   instructions |-> <<>>, hasAccountKeys |-> FALSE, accountKeys |-> <<>>]

Bodies(maxInstr) ==
  {EmptyBody,
   [EmptyBody EXCEPT !.hasTransaction = TRUE],
   [EmptyBody EXCEPT !.hasTransaction = TRUE, !.hasMessage = TRUE,
                     !.hasAccountKeys = TRUE, !.accountKeys = KeyTable(3)]}
    \cup [hasTransaction : {TRUE}, hasMessage : {TRUE},
          hasInstructions : {TRUE},
          instructions : SeqsUpTo(Instructions, maxInstr),
          hasAccountKeys : {TRUE}, accountKeys : KeyTables]
    \cup [hasTransaction : {TRUE}, hasMessage : {TRUE},
          hasInstructions : {TRUE},
          instructions : SeqsUpTo(Instructions, maxInstr),
          hasAccountKeys : {FALSE}, accountKeys : {<<>>}]

NoAnswer(fetch, hasResult, hasMeta) ==
  [fetch |-> fetch, hasResult |-> hasResult, hasMeta |-> hasMeta,
   err |-> FALSE, body |-> EmptyBody]

LedgerResponses(maxInstr) ==
  {NoAnswer("raise", FALSE, FALSE), NoAnswer("empty", FALSE, FALSE),
   NoAnswer("ok", FALSE, FALSE), NoAnswer("ok", TRUE, FALSE)}
    \cup [fetch : {"ok"}, hasResult : {TRUE}, hasMeta : {TRUE},
          err : BOOLEAN, body : Bodies(maxInstr)]

(***************************************************************************)
(* verify_transaction (app.py 90-140).                                     *)
(***************************************************************************)
Result(is_valid, error_message) ==
  [is_valid |-> is_valid, error_message |-> error_message]

\* Python's list subscript keys[i]: an index from -len to -1 counts from
\* the end of the list; anything outside -len..len-1 raises IndexError.
Subscriptable(keys, i) == i >= 0 - Len(keys) /\ i < Len(keys)

Subscript(keys, i) == IF i >= 0 THEN keys[i + 1] ELSE keys[Len(keys) + i + 1]

\* app.py 120: len(accounts) is evaluated once programIdIndex equals 2 and
\* raises TypeError for accounts that is null; line 138 catches it.
LenFault(instruction) ==
  /\ instruction.programIdIndex = TOKEN_PROGRAM_INDEX
  /\ ~instruction.accountsIsList

\* app.py 120: the instruction is a candidate.
IsCandidate(instruction) ==
  /\ instruction.programIdIndex = TOKEN_PROGRAM_INDEX
  /\ Len(instruction.accounts) >= MIN_ACCOUNTS

\* app.py 122-124 raise KeyError (no accountKeys in the message) or
\* IndexError; both are caught at line 129.
AccountKeysFault(body, accounts) ==
  \/ ~body.hasAccountKeys
  \/ \E k \in 1..MIN_ACCOUNTS : ~Subscriptable(body.accountKeys, accounts[k])

\* A variant of Matches that reads the mint from the second account index.
Matches_MintFromSecond(body, accounts, user_public_key, craft_token_mint_address) ==
  /\ Subscript(body.accountKeys, accounts[2]) = craft_token_mint_address
  /\ Subscript(body.accountKeys, accounts[1]) = user_public_key
  /\ Subscript(body.accountKeys, accounts[2]) = ADMIN_WALLET_PUBLIC_KEY

\* app.py 126: the comparison of the three resolved accounts.
Matches(body, accounts, user_public_key, craft_token_mint_address) ==
  /\ Subscript(body.accountKeys, accounts[3]) = craft_token_mint_address
  /\ Subscript(body.accountKeys, accounts[1]) = user_public_key
  /\ Subscript(body.accountKeys, accounts[2]) = ADMIN_WALLET_PUBLIC_KEY

\* app.py 111-136: the scan from instruction k on.
RECURSIVE ScanInstructions(_, _, _, _)
ScanInstructions(body, k, user_public_key, craft_token_mint_address) ==
  IF k > Len(body.instructions)
  THEN Result(FALSE, R_NO_TRANSFER)
  ELSE LET instruction == body.instructions[k]
           next == ScanInstructions(body, k + 1, user_public_key,
                                    craft_token_mint_address)
       IN IF ~instruction.isDict THEN next
          ELSE IF LenFault(instruction) THEN Result(FALSE, R_EXCEPTION)
          ELSE IF ~IsCandidate(instruction) THEN next
          ELSE IF AccountKeysFault(body, instruction.accounts)
          THEN Result(FALSE, R_ACCOUNT_KEYS)
          ELSE IF Matches(body, instruction.accounts, user_public_key,
                          craft_token_mint_address)
          THEN Result(TRUE, R_NONE)
          ELSE next

\* A variant of verify_transaction without the try/except of lines 91 and
\* 138: what get_transaction or len() raises leaves the function, which
\* then hands back no (is_valid, error_message) pair.
verify_transaction_NoOuterTry(user_public_key, craft_token_mint_address, transaction_data) ==
  IF \/ transaction_data.fetch = "raise"
     \/ \E k \in 1..Len(transaction_data.body.instructions) :
          LenFault(transaction_data.body.instructions[k])
  THEN [raised |-> "Exception"]
  ELSE IF \/ transaction_data.fetch = "empty"
          \/ ~transaction_data.hasResult
          \/ ~transaction_data.hasMeta
          \/ transaction_data.err
  THEN Result(FALSE, R_NOT_FOUND)
  ELSE IF ~transaction_data.body.hasTransaction
  THEN Result(FALSE, R_NO_DATA)
  ELSE IF ~transaction_data.body.hasMessage
  THEN Result(FALSE, R_NO_MESSAGE)
  ELSE IF \/ ~transaction_data.body.hasInstructions
          \/ transaction_data.body.instructions = <<>>
  THEN Result(FALSE, R_NO_INSTRUCTIONS)
  ELSE ScanInstructions(transaction_data.body, 1, user_public_key,
                        craft_token_mint_address)

\* A variant of verify_transaction that does not look at meta.err.
verify_transaction_IgnoresErr(user_public_key, craft_token_mint_address, transaction_data) ==
  IF transaction_data.fetch = "raise" THEN Result(FALSE, R_EXCEPTION)
  ELSE IF \/ transaction_data.fetch = "empty"
          \/ ~transaction_data.hasResult
          \/ ~transaction_data.hasMeta
  THEN Result(FALSE, R_NOT_FOUND)
  ELSE IF ~transaction_data.body.hasTransaction
  THEN Result(FALSE, R_NO_DATA)
  ELSE IF ~transaction_data.body.hasMessage
  THEN Result(FALSE, R_NO_MESSAGE)
  ELSE IF \/ ~transaction_data.body.hasInstructions
          \/ transaction_data.body.instructions = <<>>
  THEN Result(FALSE, R_NO_INSTRUCTIONS)
  ELSE ScanInstructions(transaction_data.body, 1, user_public_key,
                        craft_token_mint_address)

verify_transaction(user_public_key, craft_token_mint_address, transaction_data) ==
  IF transaction_data.fetch = "raise" THEN Result(FALSE, R_EXCEPTION)
  ELSE IF \/ transaction_data.fetch = "empty"
          \/ ~transaction_data.hasResult
          \/ ~transaction_data.hasMeta
          \/ transaction_data.err
  THEN Result(FALSE, R_NOT_FOUND)
  ELSE IF ~transaction_data.body.hasTransaction
  THEN Result(FALSE, R_NO_DATA)
  ELSE IF ~transaction_data.body.hasMessage
  THEN Result(FALSE, R_NO_MESSAGE)
  ELSE IF \/ ~transaction_data.body.hasInstructions
          \/ transaction_data.body.instructions = <<>>
  THEN Result(FALSE, R_NO_INSTRUCTIONS)
  ELSE ScanInstructions(transaction_data.body, 1, user_public_key,
                        craft_token_mint_address)

(***************************************************************************)
(* State.                                                                  *)
(***************************************************************************)
NumRequests == 2    \* verify_payment requests in one behaviour

Requests == 1..NumRequests

VARIABLES
  admin_keypair,  \* app.py 48-62: TRUE iff the admin keypair was loaded
  nft_rows,       \* committed rows of table nft (app.py 76-79)
  tx_rows,        \* committed rows of table transaction_history (65-70)
  next_unique,    \* utils.py 21-27: identifiers handed out so far
  outbox,         \* e-mails handed to send_email (utils.py 90-127)
  req,            \* per request: position in verify_payment and its locals
  listing,        \* the get_nfts answer being returned, if any
  vt_pc,          \* VerifySpec: "call" before, "returned" after the call
  vt_args,        \* VerifySpec: arguments and ledger answer of the call
  vt_result       \* VerifySpec: what verify_transaction returned

vars == <<admin_keypair, nft_rows, tx_rows, next_unique, outbox, req,
          listing, vt_pc, vt_args, vt_result>>

store == <<nft_rows, tx_rows>>

(***************************************************************************)
(* Request bodies (app.py 146-153).  "" stands for a field that is absent  *)
(* or falsy; the amount is kept by its kind.                               *)
(***************************************************************************)
Amounts == {"missing", "zero", "positive", "negative", "text", "list"}

Body(sig, user, amount, mint) ==
  [json |-> TRUE, transactionSignature |-> sig, userPublicKey |-> user,
   amount |-> amount, craftTokenMintAddress |-> mint]

NoJson == [json |-> FALSE, transactionSignature |-> "", userPublicKey |-> "",
           amount |-> "missing", craftTokenMintAddress |-> ""]

\* Every complete body, and bodies with exactly one field absent or with an
\* amount of another kind.
RequestBodies ==
  {NoJson}
    \cup {Body(s, u, "positive", m) : s \in Signatures, u \in Users, m \in Mints}
    \cup {Body("", "Alice", "positive", "MintX"),
          Body("sig1", "", "positive", "MintX"),
          Body("sig1", "Alice", "positive", "")}
    \cup {Body("sig1", "Alice", a, "MintX") : a \in Amounts}

\* The local nft_data of verify_payment: not yet bound ("unset"), None, or
\* the metadata dictionary generate_nft returned.
NoNft == [kind |-> "unset", nft_id |-> 0, metadata_url |-> ""]

NoneNft == [kind |-> "None", nft_id |-> 0, metadata_url |-> ""]

NoResponse == [status |-> 0, success |-> FALSE, error |-> ""]

Response(status, success, error) ==
  [status |-> status, success |-> success, error |-> error]

E_JSON == "Invalid JSON data"
E_MISSING == "Missing parameters"
E_AMOUNT == "Invalid amount format"
E_ADMIN == "Admin wallet not properly configured"
E_NFT == "NFT generation failed"
E_DB_INTEGRITY == "Database error: (IntegrityError) UNIQUE constraint failed"
E_DB_OTHER == "Database error: (OperationalError)"
E_UNHANDLED == "Internal Server Error"
M_SUCCESS == "Payment verified, NFT generated and email sent!"

\* The locals is_valid, error_message of verify_payment before line 166.
NoResult == Result(FALSE, "")

IdleRequest ==
  [pc |-> "idle", data |-> NoJson, result |-> NoResult, nft_data |-> NoNft,
   response |-> NoResponse]

\* return jsonify(...), status
Return(r, status, success, error) ==
  req' = [req EXCEPT ![r].pc = "done",
                     ![r].response = Response(status, success, error)]

(***************************************************************************)
(* verify_payment (app.py 144-197), one action per step of the handler     *)
(* between two points where another request can run.                       *)
(***************************************************************************)
\* app.py 155: not all([...]) -- a field is absent or falsy (0 is falsy).
MissingParameters(data) ==
  \/ data.transactionSignature = ""
  \/ data.userPublicKey = ""
  \/ data.amount \in {"missing", "zero"}
  \/ data.craftTokenMintAddress = ""

\* A variant of the configuration check that never fires.
AdminNotConfigured_Skipped == FALSE

\* app.py 163: if not admin_keypair.
AdminNotConfigured == ~admin_keypair

\* app.py 146-164: read the body, validate it, check the configuration.
ReceiveRequest(r) ==
  /\ req[r].pc = "idle"
  /\ \E data \in RequestBodies :
       IF ~data.json
       THEN req' = [req EXCEPT ![r].pc = "done", ![r].data = data,
                               ![r].response = Response(400, FALSE, E_JSON)]
       ELSE IF MissingParameters(data)
       THEN req' = [req EXCEPT ![r].pc = "done", ![r].data = data,
                               ![r].response = Response(400, FALSE, E_MISSING)]
       ELSE IF data.amount = "text"
       THEN req' = [req EXCEPT ![r].pc = "done", ![r].data = data,
                               ![r].response = Response(400, FALSE, E_AMOUNT)]
       ELSE IF data.amount = "list"
       THEN \* float() raises TypeError, which line 160 does not catch
            req' = [req EXCEPT ![r].pc = "done", ![r].data = data,
                               ![r].response =
                                 Response(500, FALSE, E_UNHANDLED)]
       ELSE IF AdminNotConfigured
       THEN req' = [req EXCEPT ![r].pc = "done", ![r].data = data,
                               ![r].response = Response(500, FALSE, E_ADMIN)]
       ELSE req' = [req EXCEPT ![r].pc = "verify", ![r].data = data]
  /\ UNCHANGED <<admin_keypair, nft_rows, tx_rows, next_unique, outbox,
                 listing, vt_pc, vt_args, vt_result>>

\* What verify_transaction can return for a payer and a mint, over the
\* ledger answers.
VerifyResults ==
  [user_public_key \in Users, craft_token_mint_address \in Mints |->
     {verify_transaction(user_public_key, craft_token_mint_address,
                         transaction_data) :
        transaction_data \in LedgerResponses(MaxInstr)}]

\* A variant of VerifyPayment that calls generate_nft before it tests
\* is_valid.
VerifyPayment_GeneratesFirst(r) ==
  /\ req[r].pc = "verify"
  /\ \E res \in VerifyResults[req[r].data.userPublicKey,
                              req[r].data.craftTokenMintAddress] :
       IF res.is_valid
       THEN req' = [req EXCEPT ![r].pc = "generate", ![r].result = res]
       ELSE req' = [req EXCEPT ![r].pc = "done", ![r].result = res,
                               ![r].response =
                                 Response(400, FALSE, res.error_message)]
  /\ next_unique' = next_unique + 1
  /\ UNCHANGED <<admin_keypair, nft_rows, tx_rows, outbox,
                 listing, vt_pc, vt_args, vt_result>>

\* A variant of VerifyPayment that goes on to generate_nft whatever the
\* verifier returned.
VerifyPayment_IgnoresResult(r) ==
  /\ req[r].pc = "verify"
  /\ \E res \in VerifyResults[req[r].data.userPublicKey,
                              req[r].data.craftTokenMintAddress] :
       req' = [req EXCEPT ![r].pc = "generate", ![r].result = res]
  /\ UNCHANGED <<admin_keypair, nft_rows, tx_rows, next_unique, outbox,
                 listing, vt_pc, vt_args, vt_result>>

\* app.py 166-168, 196-197: ask the ledger, verify, reject if invalid.
VerifyPayment(r) ==
  /\ req[r].pc = "verify"
  /\ \E res \in VerifyResults[req[r].data.userPublicKey,
                              req[r].data.craftTokenMintAddress] :
       IF res.is_valid
       THEN req' = [req EXCEPT ![r].pc = "generate", ![r].result = res]
       ELSE req' = [req EXCEPT ![r].pc = "done", ![r].result = res,
                               ![r].response =
                                 Response(400, FALSE, res.error_message)]
  /\ UNCHANGED <<admin_keypair, nft_rows, tx_rows, next_unique, outbox,
                 listing, vt_pc, vt_args, vt_result>>

\* A variant of GenerateNft that tests nft_data only after the rows were
\* written.
GenerateNft_ChecksAfterPersisting(r) ==
  /\ req[r].pc = "generate"
  /\ nft_rows' = nft_rows \cup
       {[nft_id |-> 0, metadata_url |-> "",
         owner_public_key |-> req[r].data.userPublicKey]}
  /\ tx_rows' = tx_rows \cup
       {[transaction_id |-> req[r].data.transactionSignature,
         user_public_key |-> req[r].data.userPublicKey, nft_id |-> 0]}
  /\ req' = [req EXCEPT ![r].pc = "done", ![r].nft_data = NoneNft,
                          ![r].response = Response(500, FALSE, E_NFT)]
  /\ UNCHANGED <<admin_keypair, next_unique, outbox,
                 listing, vt_pc, vt_args, vt_result>>

\* app.py 169-174 with utils.py 53-88: generate_nft returns None when the
\* image upload fails, raises when the shared temp.svg cannot be written or
\* removed, and otherwise returns metadata under a fresh identifier (the
\* metadata upload of utils.py 78 is handed bytes for a path and yields no
\* metadata_url).
GenerateNft(r) ==
  /\ req[r].pc = "generate"
  /\ \E outcome \in {"none", "raise", "ok"} :
       CASE outcome = "none" ->
              /\ req' = [req EXCEPT ![r].pc = "done",
                                      ![r].nft_data = NoneNft,
                                      ![r].response =
                                        Response(500, FALSE, E_NFT)]
              /\ UNCHANGED next_unique
         [] outcome = "raise" ->
              /\ Return(r, 500, FALSE, E_UNHANDLED)
              /\ UNCHANGED next_unique
         [] outcome = "ok" ->
              /\ next_unique' = next_unique + 1
              /\ req' = [req EXCEPT
                   ![r].pc = "insert_nft",
                   ![r].nft_data = [kind |-> "dict",
                                    nft_id |-> next_unique + 1,
                                    metadata_url |-> ""]]
  /\ UNCHANGED <<admin_keypair, nft_rows, tx_rows, outbox,
                 listing, vt_pc, vt_args, vt_result>>

\* The rows built at app.py 173-174.
NftRow(r) ==
  [nft_id |-> req[r].nft_data.nft_id,
   metadata_url |-> req[r].nft_data.metadata_url,
   owner_public_key |-> req[r].data.userPublicKey]

TransactionRow(r) ==
  [transaction_id |-> req[r].data.transactionSignature,
   user_public_key |-> req[r].data.userPublicKey,
   nft_id |-> req[r].nft_data.nft_id]

\* A variant of UniqueViolation for a column declared without unique=True.
UniqueViolation_NotDeclared(r) == FALSE

\* app.py 67: unique=True on transaction_id, against the committed rows.
UniqueViolation(r) ==
  \E row \in tx_rows :
    row.transaction_id = req[r].data.transactionSignature

\* Another request's uncommitted row holds the same key: the insert waits
\* for that transaction to end.
UniqueWait(r) ==
  \E o \in Requests \ {r} :
    /\ req[o].pc = "commit"
    /\ req[o].data.transactionSignature = req[r].data.transactionSignature

\* A variant of InsertNft on a session that commits each row as it is
\* added.
InsertNft_Autocommit(r) ==
  /\ req[r].pc = "insert_nft"
  /\ nft_rows' = nft_rows \cup {NftRow(r)}
  /\ req' = [req EXCEPT ![r].pc = "insert_tx"]
  /\ UNCHANGED <<admin_keypair, tx_rows, next_unique, outbox,
                 listing, vt_pc, vt_args, vt_result>>

\* app.py 177, 179: the flush inserts the nft row inside the request's
\* database transaction; nothing is visible to others before the commit.
InsertNft(r) ==
  /\ req[r].pc = "insert_nft"
  /\ req' = [req EXCEPT ![r].pc = "insert_tx"]
  /\ UNCHANGED <<admin_keypair, nft_rows, tx_rows, next_unique, outbox,
                 listing, vt_pc, vt_args, vt_result>>

\* app.py 178, 179: the flush inserts the transaction_history row.
InsertTransaction(r) ==
  /\ req[r].pc = "insert_tx"
  /\ ~UniqueViolation(r)
  /\ ~UniqueWait(r)
  /\ req' = [req EXCEPT ![r].pc = "commit"]
  /\ UNCHANGED <<admin_keypair, nft_rows, tx_rows, next_unique, outbox,
                 listing, vt_pc, vt_args, vt_result>>

\* app.py 179-182: the insert hits the unique constraint (IntegrityError);
\* the handler rolls back and answers 500.
IntegrityError(r) ==
  /\ req[r].pc = "insert_tx"
  /\ UniqueViolation(r)
  /\ Return(r, 500, FALSE, E_DB_INTEGRITY)
  /\ UNCHANGED <<admin_keypair, nft_rows, tx_rows, next_unique, outbox,
                 listing, vt_pc, vt_args, vt_result>>

\* app.py 180-182: any other database failure during the flush or the
\* commit; the rollback drops the uncommitted rows.
DatabaseFailure(r) ==
  /\ req[r].pc \in {"insert_nft", "insert_tx", "commit"}
  /\ Return(r, 500, FALSE, E_DB_OTHER)
  /\ UNCHANGED <<admin_keypair, nft_rows, tx_rows, next_unique, outbox,
                 listing, vt_pc, vt_args, vt_result>>

\* app.py 179: the commit makes both rows visible at once.
Commit(r) ==
  /\ req[r].pc = "commit"
  /\ nft_rows' = nft_rows \cup {NftRow(r)}
  /\ tx_rows' = tx_rows \cup {TransactionRow(r)}
  /\ req' = [req EXCEPT ![r].pc = "notify"]
  /\ UNCHANGED <<admin_keypair, next_unique, outbox,
                 listing, vt_pc, vt_args, vt_result>>

\* app.py 184-195: line 184 binds eMaltMail_html, line 193 reads
\* email_html, a name bound nowhere: evaluating the call's arguments raises
\* NameError before send_email is entered, and Flask answers 500.
Notify(r) ==
  /\ req[r].pc = "notify"
  /\ Return(r, 500, FALSE, E_UNHANDLED)
  /\ UNCHANGED <<admin_keypair, nft_rows, tx_rows, next_unique, outbox,
                 listing, vt_pc, vt_args, vt_result>>

(***************************************************************************)
(* get_nfts (app.py 201-211).                                              *)
(***************************************************************************)
NoListing == [user |-> "", nfts |-> {}]

\* A variant of get_nfts whose query has no filter_by.
get_nfts_AllOwners(user_public_key) ==
  {[nft_id |-> n.nft_id, metadata_url |-> n.metadata_url] : n \in nft_rows}

\* app.py 204-211: the rows of the owner, each as nft_id and metadata_url.
get_nfts(user_public_key) ==
  {[nft_id |-> n.nft_id, metadata_url |-> n.metadata_url] :
     n \in {m \in nft_rows : m.owner_public_key = user_public_key}}

\* app.py 202-211: the handler runs its query and builds the answer.
GetNfts(user_public_key) ==
  /\ listing = NoListing
  /\ listing' = [user |-> user_public_key, nfts |-> get_nfts(user_public_key)]
  /\ UNCHANGED <<admin_keypair, nft_rows, tx_rows, next_unique, outbox, req,
                 vt_pc, vt_args, vt_result>>

\* app.py 211: the answer is handed to the caller.
ReturnNfts ==
  /\ listing # NoListing
  /\ listing' = NoListing
  /\ UNCHANGED <<admin_keypair, nft_rows, tx_rows, next_unique, outbox, req,
                 vt_pc, vt_args, vt_result>>

(***************************************************************************)
(* The call of verify_transaction on its own.                              *)
(***************************************************************************)
NoArgs ==
  [user_public_key |-> "", craft_token_mint_address |-> "",
   transaction_data |-> NoAnswer("empty", FALSE, FALSE)]

CallVerifyTransaction ==
  /\ vt_pc = "call"
  /\ vt_pc' = "returned"
  /\ vt_result' = verify_transaction(vt_args.user_public_key,
                                     vt_args.craft_token_mint_address,
                                     vt_args.transaction_data)
  /\ UNCHANGED <<admin_keypair, nft_rows, tx_rows, next_unique, outbox, req,
                 listing, vt_args>>

(***************************************************************************)
(* Specifications.                                                         *)
(***************************************************************************)
InitStore ==
  /\ nft_rows = {}
  /\ tx_rows = {}
  /\ next_unique = 0
  /\ outbox = {}
  /\ req = [r \in Requests |-> IdleRequest]
  /\ listing = NoListing

Init ==
  /\ admin_keypair \in BOOLEAN
  /\ InitStore
  /\ vt_pc = "unused"
  /\ vt_args = NoArgs
  /\ vt_result = NoResult

\* A step of one verify_payment request.
RequestStep(r) ==
  \/ ReceiveRequest(r)
  \/ VerifyPayment(r)
  \/ GenerateNft(r)
  \/ InsertNft(r)
  \/ InsertTransaction(r)
  \/ IntegrityError(r)
  \/ DatabaseFailure(r)
  \/ Commit(r)
  \/ Notify(r)

\* get_nfts runs a single query; its answer depends on no later step, so it
\* is handed back before the next step of a purchase is taken.
Next ==
  \/ listing = NoListing /\ \E r \in Requests : RequestStep(r)
  \/ \E user_public_key \in Users : GetNfts(user_public_key)
  \/ ReturnNfts

Spec == Init /\ [][Next]_vars

VerifyInit ==
  /\ admin_keypair = TRUE
  /\ InitStore
  /\ vt_pc = "call"
  /\ vt_args \in [user_public_key : Users,
                  craft_token_mint_address : Mints,
                  transaction_data : LedgerResponses(MaxInstr)]
  /\ vt_result = NoResult

VerifyNext == CallVerifyTransaction

VerifySpec == VerifyInit /\ [][VerifyNext]_vars

(***************************************************************************)
(* Properties of verify_transaction, checked under VerifySpec.  They are   *)
(* stated over the ledger answer itself: an account index resolves in the  *)
(* account-key table iff it lies in 0..len-1.                              *)
(***************************************************************************)
vt_data == vt_args.transaction_data

vt_instructions == vt_data.body.instructions

\* The ledger returned the transaction.
Found(td) == td.fetch = "ok" /\ td.hasResult /\ td.hasMeta

\* The transaction body, its message and its instruction list are there.
HasInstructionList(td) ==
  /\ td.body.hasTransaction
  /\ td.body.hasMessage
  /\ td.body.hasInstructions

InRange(keys, i) == i \in 0..(Len(keys) - 1)

TokenInstruction(ins) ==
  /\ ins.isDict
  /\ ins.programIdIndex = TOKEN_PROGRAM_INDEX
  /\ ins.accountsIsList
  /\ Len(ins.accounts) >= 3

\* A token-program instruction whose account index list is not a list.
MalformedInstruction(ins) ==
  /\ ins.isDict
  /\ ins.programIdIndex = TOKEN_PROGRAM_INDEX
  /\ ~ins.accountsIsList

ResolvesInTable(body, ins) ==
  /\ body.hasAccountKeys
  /\ \A k \in 1..3 : InRange(body.accountKeys, ins.accounts[k])

OutOfRangeIndex(body, ins) ==
  /\ body.hasAccountKeys
  /\ \E k \in 1..3 : ~InRange(body.accountKeys, ins.accounts[k])

MatchingTransfer(body, ins, payer, mint) ==
  /\ TokenInstruction(ins)
  /\ ResolvesInTable(body, ins)
  /\ body.accountKeys[ins.accounts[1] + 1] = payer
  /\ body.accountKeys[ins.accounts[2] + 1] = ADMIN_WALLET_PUBLIC_KEY
  /\ body.accountKeys[ins.accounts[3] + 1] = mint

MatchAt(k) ==
  MatchingTransfer(vt_data.body, vt_instructions[k],
                   vt_args.user_public_key,
                   vt_args.craft_token_mint_address)

\* Instruction k does not end the scan: it is no candidate, or a candidate
\* whose indices resolve and that does not match.
PassedOver(k) ==
  \/ /\ ~TokenInstruction(vt_instructions[k])
     /\ ~MalformedInstruction(vt_instructions[k])
  \/ /\ ResolvesInTable(vt_data.body, vt_instructions[k])
     /\ ~MatchAt(k)

Positions == 1..Len(vt_instructions)

\* C1: verify_transaction returns Valid only if the ledger returned the
\* transaction without an execution error and its instruction list holds a
\* token-program instruction with at least three account indices whose first
\* three resolve in the account-key table to the payer, the configured
\* recipient and the claim's mint.
C1_ValidOnlyForMatchingTransfer ==
  (vt_pc = "returned" /\ vt_result.is_valid)
    => /\ Found(vt_data)
       /\ ~vt_data.err
       /\ HasInstructionList(vt_data)
       /\ \E k \in Positions : MatchAt(k)

\* C5 as stated: every found transaction with a matching instruction is
\* Valid.
C5_MatchImpliesValid ==
  (/\ vt_pc = "returned"
   /\ Found(vt_data)
   /\ HasInstructionList(vt_data)
   /\ \E k \in Positions : MatchAt(k))
    => vt_result.is_valid

\* C5 as amended: a found, error-free transaction whose instruction list
\* holds a matching token-program instruction, with no token-program
\* instruction before it that is malformed or carries an out-of-range
\* account index, is Valid.
C5_MatchBeforeFaultImpliesValid ==
  (/\ vt_pc = "returned"
   /\ Found(vt_data)
   /\ ~vt_data.err
   /\ HasInstructionList(vt_data)
   /\ \E k \in Positions :
        /\ MatchAt(k)
        /\ \A j \in 1..(k - 1) :
             /\ ~MalformedInstruction(vt_instructions[j])
             /\ ~(/\ TokenInstruction(vt_instructions[j])
                  /\ OutOfRangeIndex(vt_data.body, vt_instructions[j])))
    => vt_result = Result(TRUE, R_NONE)

\* C5 witness: Valid was returned for a match in second place, after a
\* token-program instruction that resolves and does not match.
C5_Witness ==
  /\ vt_pc = "returned"
  /\ vt_result.is_valid
  /\ ~vt_data.err
  /\ Len(vt_instructions) = 2
  /\ TokenInstruction(vt_instructions[1])
  /\ ResolvesInTable(vt_data.body, vt_instructions[1])
  /\ ~MatchAt(1)
  /\ MatchAt(2)

\* C6: a transaction whose execution error is set is Invalid, whatever its
\* instruction list holds.
C6_ExecutionErrorIsInvalid ==
  (vt_pc = "returned" /\ Found(vt_data) /\ vt_data.err)
    => ~vt_result.is_valid

\* C6 witness: Invalid was returned for a failed transaction that holds a
\* fully matching transfer.
C6_Witness ==
  /\ vt_pc = "returned"
  /\ Found(vt_data)
  /\ vt_data.err
  /\ HasInstructionList(vt_data)
  /\ \E k \in Positions : MatchAt(k)
  /\ ~vt_result.is_valid

\* C7: a found, error-free transaction whose instruction list (empty or
\* not) holds no matching instruction is Invalid with the reason "no
\* transfer to the recipient found".
C7_NoMatchGivesNoTransfer ==
  (/\ vt_pc = "returned"
   /\ Found(vt_data)
   /\ ~vt_data.err
   /\ HasInstructionList(vt_data)
   /\ ~\E k \in Positions : MatchAt(k))
    => vt_result = Result(FALSE, R_NO_TRANSFER)

\* C8: when the scan reaches a token-program instruction one of whose first
\* three account indices lies outside 0..len-1 (too large or negative), the
\* result is Invalid.
C8_OutOfRangeIndexIsInvalid ==
  (/\ vt_pc = "returned"
   /\ Found(vt_data)
   /\ ~vt_data.err
   /\ HasInstructionList(vt_data)
   /\ \E k \in Positions :
        /\ TokenInstruction(vt_instructions[k])
        /\ OutOfRangeIndex(vt_data.body, vt_instructions[k])
        /\ \A j \in 1..(k - 1) : PassedOver(j))
    => ~vt_result.is_valid

(***************************************************************************)
(* Properties of verify_payment and the store, checked under Spec.         *)
(***************************************************************************)
\* The request issued an artifact (generate_nft returned metadata).
Issued(r) == req[r].nft_data.kind = "dict"

\* The request's rows are in the store.
Committed(r) == Issued(r) /\ NftRow(r) \in nft_rows

RecordsOf(sig) == {t \in tx_rows : t.transaction_id = sig}

\* The request went through persistence and lost to the unique constraint:
\* it issued an artifact, returned, its rows are not in the store, no other
\* database failure was reported and a record of its reference is stored.
LostToDuplicate(r) ==
  /\ req[r].pc = "done"
  /\ Issued(r)
  /\ ~Committed(r)
  /\ req[r].response.error # E_DB_OTHER
  /\ RecordsOf(req[r].data.transactionSignature) # {}

\* C2: every TransactionHistory row references an NFT row of the store, and
\* no two TransactionHistory rows share a transaction_id.
C2_StoreIntegrity ==
  /\ \A t \in tx_rows : \E n \in nft_rows : n.nft_id = t.nft_id
  /\ \A t1, t2 \in tx_rows :
       t1.transaction_id = t2.transaction_id => t1 = t2

\* C2 witness: a purchase is stored and a later request replaying its
\* transaction reference was refused by the store.
C2_Witness ==
  \E r \in Requests :
    /\ LostToDuplicate(r)
    /\ req[r].response.error = E_DB_INTEGRITY

\* C3: a purchase that replays the reference of a stored purchase returns
\* DuplicateSubmission, a 4xx outcome; exactly one record of the reference
\* persists and the artifact issued for the replay is not stored.
C3_ReplayIsDuplicateSubmission ==
  \A r \in Requests :
    LostToDuplicate(r)
      => /\ req[r].response.status \in 400..499
         /\ Cardinality(RecordsOf(req[r].data.transactionSignature)) = 1
         /\ ~\E n \in nft_rows : n.nft_id = req[r].nft_data.nft_id

\* C4: of two requests for the same reference that both verified Valid and
\* issued an artifact, exactly one commits its rows; the other returns
\* DuplicateSubmission (4xx) and leaves no row of its own.
C4_ConcurrentDuplicatesRaceSafely ==
  \A r1, r2 \in Requests :
    (/\ r1 # r2
     /\ req[r1].data.transactionSignature = req[r2].data.transactionSignature
     /\ Issued(r1) /\ Issued(r2)
     /\ req[r1].pc = "done" /\ req[r2].pc = "done"
     /\ req[r1].response.error # E_DB_OTHER
     /\ req[r2].response.error # E_DB_OTHER)
      => \E w, l \in {r1, r2} :
           /\ w # l
           /\ Committed(w)
           /\ ~Committed(l)
           /\ req[l].response.status \in 400..499
           /\ ~\E t \in tx_rows : t.nft_id = req[l].nft_data.nft_id

\* C9: the step in which generate_nft returns None answers 500 "NFT
\* generation failed", ends the request, writes no row and sends no e-mail;
\* unless another request for the same reference issued an artifact, no
\* record of the reference is stored afterwards.
C9_GenerationFailureLeavesStore ==
  [][\A r \in Requests :
       (req[r].nft_data.kind = "unset" /\ req'[r].nft_data.kind = "None")
         => /\ req'[r].pc = "done"
            /\ req'[r].response = Response(500, FALSE, E_NFT)
            /\ UNCHANGED <<nft_rows, tx_rows, outbox>>
            /\ (\A o \in Requests \ {r} :
                  ~(/\ Issued(o)
                    /\ req[o].data.transactionSignature
                         = req[r].data.transactionSignature))
                 => (\A t \in tx_rows' :
                       t.transaction_id
                         # req[r].data.transactionSignature)]_vars

\* C9 witness: a request whose verification was Valid ended because
\* generate_nft returned None.
C9_Witness ==
  \E r \in Requests :
    /\ req[r].pc = "done"
    /\ req[r].nft_data.kind = "None"
    /\ req[r].response.error = E_NFT

\* C10: a request whose rows were committed keeps them and returns the
\* success response, whatever happens to the notification.
C10_CommittedPurchaseReturnsSuccess ==
  \A r \in Requests :
    (req[r].pc = "done" /\ Committed(r))
      => /\ TransactionRow(r) \in tx_rows
         /\ req[r].response.status = 200
         /\ req[r].response.success

\* The entry get_nfts returns for the artifact of request r.
ListedEntry(r) ==
  [nft_id |-> req[r].nft_data.nft_id,
   metadata_url |-> req[r].nft_data.metadata_url]

\* C11: a purchase whose claim is well-formed, whose configuration is
\* available, whose verification is Valid and whose issuance and persistence
\* succeed returns the success response (HTTP 200), and every get_nfts
\* answer for its payer computed afterwards includes its artifact.
C11_SuccessIs200AndListed ==
  \A r \in Requests :
    Committed(r)
      => /\ req[r].pc = "done"
              => (req[r].response.status = 200 /\ req[r].response.success)
         /\ listing.user = req[r].data.userPublicKey
              => ListedEntry(r) \in listing.nfts

\* verify_transaction ran for the request and returned Invalid.
Rejected(r) == ~req[r].result.is_valid /\ req[r].result # NoResult

\* C12: an artifact is issued and rows are written for a request only after
\* verify_transaction returned Valid for that request: a request whose
\* verification was Invalid or never ran has no artifact, and every stored
\* row is the row of a request that verified Valid.
C12_ArtifactOnlyAfterValid ==
  /\ \A r \in Requests :
       (\/ req[r].nft_data.kind # "unset"
        \/ req[r].pc \in {"generate", "insert_nft", "insert_tx", "commit",
                          "notify"})
         => req[r].result.is_valid
  /\ \A n \in nft_rows :
       \E r \in Requests : req[r].result.is_valid /\ NftRow(r) = n
  /\ \A t \in tx_rows :
       \E r \in Requests : req[r].result.is_valid /\ TransactionRow(r) = t

\* C12 witness: one request verified Valid and has its rows stored, another
\* was verified Invalid and returned without an artifact.
C12_Witness ==
  \E r, o \in Requests :
    /\ Committed(r)
    /\ req[r].result.is_valid
    /\ Rejected(o)
    /\ req[o].pc = "done"
    /\ req[o].nft_data = NoNft

\* C13: the step in which verify_transaction returns Invalid answers 400
\* with the verifier's reason and ends the request without a side effect:
\* generate_nft is not called, no row is written, no e-mail is sent.
C13_RejectionHasNoSideEffect ==
  [][\A r \in Requests :
       (req[r].pc = "verify" /\ req'[r] # req[r] /\ ~req'[r].result.is_valid)
         => /\ req'[r].pc = "done"
            /\ req'[r].result.error_message # ""
            /\ req'[r].response
                 = Response(400, FALSE, req'[r].result.error_message)
            /\ req'[r].nft_data = NoNft
            /\ UNCHANGED <<nft_rows, tx_rows, outbox, next_unique>>]_vars

\* C13 witness: a request was rejected with the verifier's reason after
\* another request's purchase was stored.
C13_Witness ==
  \E r \in Requests :
    /\ Rejected(r)
    /\ req[r].response = Response(400, FALSE, R_NO_TRANSFER)
    /\ nft_rows # {}

\* A body with every required field and a positive amount.
WellFormed(data) ==
  /\ data.json
  /\ ~MissingParameters(data)
  /\ data.amount = "positive"

\* C14: while the admin keypair is unavailable every well-formed purchase
\* request is answered 500 "Admin wallet not properly configured" straight
\* from the handler's entry: verify_transaction has returned nothing to it,
\* no artifact was generated and the store holds no row.
C14_NoAdminKeypairFailsFast ==
  ~admin_keypair
    => /\ \A r \in Requests :
            (req[r].pc # "idle" /\ WellFormed(req[r].data))
              => /\ req[r].pc = "done"
                 /\ req[r].response = Response(500, FALSE, E_ADMIN)
                 /\ req[r].result = NoResult
                 /\ req[r].nft_data = NoNft
       /\ nft_rows = {} /\ tx_rows = {} /\ outbox = {}
       /\ next_unique = 0

\* C14 witness: with no admin keypair, every request carried a well-formed
\* body and was answered.
C14_Witness ==
  /\ ~admin_keypair
  /\ \A r \in Requests :
       /\ req[r].pc = "done"
       /\ WellFormed(req[r].data)
       /\ req[r].response.status = 500

\* C15: a purchase request with a required field missing, or with an amount
\* that is not a positive number (zero, negative, not a number), is answered
\* 400 from the handler's entry, whether the admin keypair is loaded or not,
\* with verify_transaction never called and nothing generated.
C15_InvalidRequestIs400 ==
  \A r \in Requests :
    (/\ req[r].pc # "idle"
     /\ req[r].data.json
     /\ (MissingParameters(req[r].data) \/ req[r].data.amount # "positive"))
      => /\ req[r].pc = "done"
         /\ req[r].response.status = 400
         /\ req[r].result = NoResult
         /\ req[r].nft_data = NoNft

\* The request ended in the except branch of app.py 180-182.
PersistenceFailed(r) ==
  /\ req[r].pc = "done"
  /\ req[r].response.error \in {E_DB_INTEGRITY, E_DB_OTHER}

\* C16: the two rows of a request are stored together or not at all.  In
\* every state the nft row of a request is in the store iff its
\* transaction_history row is; a request whose write failed is answered 500
\* with a database error and has left neither row; a request past its
\* commit has both.
C16_PersistenceIsAtomic ==
  \A r \in Requests :
    /\ NftRow(r) \in nft_rows <=> TransactionRow(r) \in tx_rows
    /\ PersistenceFailed(r)
         => /\ req[r].response.status = 500
            /\ NftRow(r) \notin nft_rows
            /\ TransactionRow(r) \notin tx_rows
    /\ (req[r].pc = "notify" \/ (req[r].pc = "done" /\ Issued(r)
                                  /\ ~PersistenceFailed(r)))
         => /\ NftRow(r) \in nft_rows
            /\ TransactionRow(r) \in tx_rows
    /\ req[r].pc \in {"insert_nft", "insert_tx", "commit"}
         => /\ NftRow(r) \notin nft_rows
            /\ TransactionRow(r) \notin tx_rows

\* C16 witness: one request's write failed after its artifact was generated
\* and the store holds exactly the two rows of another request.
C16_Witness ==
  \E r, o \in Requests :
    /\ PersistenceFailed(r) /\ Issued(r)
    /\ Committed(o)
    /\ nft_rows = {NftRow(o)}
    /\ tx_rows = {TransactionRow(o)}

\* The reasons verify_transaction gives with an Invalid result.
Reasons ==
  {R_NOT_FOUND, R_NO_DATA, R_NO_MESSAGE, R_NO_INSTRUCTIONS, R_ACCOUNT_KEYS,
   R_NO_TRANSFER, R_EXCEPTION}

\* C17: for every ledger outcome verify_transaction hands back a pair:
\* (True, None), or False with one of its reasons; nothing it calls raises
\* past it.  A fetch that raises, an empty answer and an answer without
\* result or meta give Invalid.
C17_AlwaysReturnsAValue ==
  vt_pc = "returned"
    => /\ vt_result \in {Result(TRUE, R_NONE)}
                          \cup {Result(FALSE, m) : m \in Reasons}
       /\ vt_data.fetch = "raise" => vt_result = Result(FALSE, R_EXCEPTION)
       /\ (vt_data.fetch = "empty" \/ ~vt_data.hasResult \/ ~vt_data.hasMeta)
            => ~vt_result.is_valid

\* C17 witness: the fetch raised and the call returned Invalid.
C17_Witness ==
  /\ vt_pc = "returned"
  /\ vt_data.fetch = "raise"
  /\ vt_result = Result(FALSE, R_EXCEPTION)

\* Instruction k is no candidate, or a candidate whose indices resolve in
\* the table and that does not match.
NeverEndsScan(k) ==
  \/ ~TokenInstruction(vt_instructions[k])
  \/ /\ ResolvesInTable(vt_data.body, vt_instructions[k])
     /\ ~MatchAt(k)

\* C18: the instructions are scanned in order and the first decisive
\* candidate gives the result: a matching instruction reached first gives
\* Valid, a candidate with an out-of-range account index reached first gives
\* Invalid, and a list of non-candidates and mismatching candidates only is
\* scanned to its end.
C18_FirstDecisiveCandidateWins ==
  (/\ vt_pc = "returned"
   /\ Found(vt_data)
   /\ ~vt_data.err
   /\ HasInstructionList(vt_data))
    => /\ \A k \in Positions :
            (MatchAt(k) /\ \A j \in 1..(k - 1) : NeverEndsScan(j))
              => vt_result = Result(TRUE, R_NONE)
       /\ \A k \in Positions :
            (/\ TokenInstruction(vt_instructions[k])
             /\ OutOfRangeIndex(vt_data.body, vt_instructions[k])
             /\ \A j \in 1..(k - 1) : NeverEndsScan(j))
              => ~vt_result.is_valid
       /\ (\A k \in Positions : NeverEndsScan(k))
            => vt_result = Result(FALSE, R_NO_TRANSFER)

\* C19: for a found, error-free answer whose transaction body, message or
\* instruction list is absent the result is Invalid with a "missing"
\* reason, and an instruction list holding an entry that is not an
\* instruction object is never verified as Valid with that entry skipped.
C19_AbsentOrMalformedIsInvalid ==
  (/\ vt_pc = "returned"
   /\ Found(vt_data)
   /\ ~vt_data.err)
    => /\ ~HasInstructionList(vt_data)
            => /\ ~vt_result.is_valid
               /\ vt_result.error_message
                    \in {R_NO_DATA, R_NO_MESSAGE, R_NO_INSTRUCTIONS}
       /\ (/\ HasInstructionList(vt_data)
           /\ \E k \in Positions : ~vt_instructions[k].isDict)
            => ~vt_result.is_valid

\* The purchase records that reference an nft row.
RecordsReferencing(n) == {t \in tx_rows : t.nft_id = n.nft_id}

\* The artifacts of an owner's recorded purchases, as get_nfts lists them.
ArtifactsOfPurchasesBy(owner) ==
  {[nft_id |-> n.nft_id, metadata_url |-> n.metadata_url] :
     n \in {m \in nft_rows :
              \E t \in tx_rows : /\ t.nft_id = m.nft_id
                                 /\ t.user_public_key = owner}}

StoreMatchesRecords ==
  /\ \A n \in nft_rows :
       /\ Cardinality(RecordsReferencing(n)) = 1
       /\ \A t \in RecordsReferencing(n) :
            t.user_public_key = n.owner_public_key
  /\ Cardinality(nft_rows) = Cardinality(tx_rows)
  /\ listing # NoListing
       => listing.nfts = ArtifactsOfPurchasesBy(listing.user)

\* C20: in every reachable state each nft row is referenced by exactly one
\* transaction_history row, whose user_public_key is the row's
\* owner_public_key; the two tables hold equally many rows; what get_nfts
\* answers for an owner is exactly the artifacts of that owner's recorded
\* purchases, and answering changes neither table.
C20_ArtifactsMatchRecords ==
  /\ []StoreMatchesRecords
  /\ [][listing' # listing => UNCHANGED <<nft_rows, tx_rows>>]_vars

\* C20 witness: get_nfts answers for an owner with a stored artifact while
\* the store also holds another owner's artifact.
C20_Witness ==
  /\ listing # NoListing
  /\ listing.nfts # {}
  /\ \E n \in nft_rows : n.owner_public_key # listing.user

====
